---- MODULE Spec2Model ----
(***************************************************************************)
(* Model of ef_migrate_and_script.py: the EF Core migration script         *)
(* generator.  A Python str is a sequence of characters, a dict is a       *)
(* function, a list is a sequence, and an exception is a record returned   *)
(* in place of the value.                                                  *)
(*                                                                         *)
(* A character is a string that names one code point: the character        *)
(* itself for printable ASCII and Latin-1, the escapes "\t", "\n", "\f",    *)
(* "\r", and "U+" with four hexadecimal digits for every other code point  *)
(* and the grave accent ("U+000B" is the vertical tab, "U+017F" the long   *)
(* s, "U+0663" the Arabic-Indic digit three).  CodePoints lists            *)
(* the characters of the model.                                            *)
(*                                                                         *)
(* Assumptions on the environment: paths are POSIX paths on a file system  *)
(* without symbolic links; the standard output encodes every character;    *)
(* what the child processes write decodes in the encoding of the locale;   *)
(* the repository directory stays in place while the run lasts; the umask  *)
(* leaves the directories that mkdir creates usable; nothing else changes  *)
(* the file system during the run.                                         *)
(***************************************************************************)
EXTENDS Integers, Sequences, FiniteSets, TLC

(* ---------------------------------------------------------------------- *)
(* Python values                                                           *)
(* ---------------------------------------------------------------------- *)

\* Python's None: a sequence that is no string, so it compares with strings.
None == <<"None">>

\* bool(x) of an optional string: None and "" are falsy.
Truthy(x) == x # None /\ x # <<>>

\* a or b
Or(a, b) == IF Truthy(a) THEN a ELSE b

\* A call that returned v, and a call that raised an exception of class cls.
Return(v) == [ok |-> TRUE, val |-> v]
Raise(cls, msg) == [ok |-> FALSE, cls |-> cls, msg |-> msg]

\* max(S) and min(S) of a set of integers.
Max(S) == CHOOSE x \in S : \A y \in S : y <= x
Min(S) == CHOOSE x \in S : \A y \in S : x <= y

Digits == {"0","1","2","3","4","5","6","7","8","9"}
\* \d of the re module on str: every decimal digit; beyond ASCII the model
\* has the Arabic-Indic digits.
ReDigits == Digits \cup {"U+0660","U+0661","U+0662","U+0663","U+0664","U+0665","U+0666","U+0667","U+0668","U+0669"}
UpperCase == <<"A","B","C","D","E","F","G","H","I","J","K","L","M","N","O","P","Q","R","S","T","U","V","W","X","Y","Z">>
LowerCase == <<"a","b","c","d","e","f","g","h","i","j","k","l","m","n","o","p","q","r","s","t","u","v","w","x","y","z">>
\* \w of the re module on str: every alphanumeric character and "_".
WordChars ==
    Digits \cup {UpperCase[k] : k \in 1..26} \cup {LowerCase[k] : k \in 1..26} \cup {"_"}
        \cup {"ª","²","³","µ","¹","º","¼","½","¾","À","Á","Â","Ã","Ä","Å","Æ","Ç","È","É","Ê","Ë","Ì","Í","Î","Ï","Ð","Ñ","Ò","Ó","Ô","Õ","Ö","Ø","Ù","Ú","Û","Ü","Ý","Þ","ß","à","á","â","ã","ä","å","æ","ç","è","é","ê","ë","ì","í","î","ï","ð","ñ","ò","ó","ô","õ","ö","ø","ù","ú","û","ü","ý","þ","ÿ","U+017F","U+0660","U+0661","U+0662","U+0663","U+0664","U+0665","U+0666","U+0667","U+0668","U+0669"}
\* What str.strip() removes: the characters with str.isspace().
Whitespace == {"\t","\n","U+000B","\f","\r","U+001C","U+001D","U+001E","U+001F"," ","U+0085","U+00A0","U+1680","U+2000","U+2001","U+2002","U+2003","U+2004","U+2005","U+2006","U+2007","U+2008","U+2009","U+200A","U+2028","U+2029","U+202F","U+205F","U+3000"}
\* The characters of the model in code point order (str comparison).
CodePoints == <<"\t","\n","U+000B","\f","\r","U+001C","U+001D","U+001E","U+001F"," ","!","\"","#","$","%","&","'","(",")","*","+",",","-",".","/","0","1","2","3","4","5","6","7","8","9",":",";","<","=",">","?","@","A","B","C","D","E","F","G","H","I","J","K","L","M","N","O","P","Q","R","S","T","U","V","W","X","Y","Z","[","\\","]","^","_","U+0060","a","b","c","d","e","f","g","h","i","j","k","l","m","n","o","p","q","r","s","t","u","v","w","x","y","z","{","|","}","~","U+0085","U+00A0","¡","¢","£","¤","¥","¦","§","¨","©","ª","«","¬","®","¯","°","±","²","³","´","µ","¶","·","¸","¹","º","»","¼","½","¾","¿","À","Á","Â","Ã","Ä","Å","Æ","Ç","È","É","Ê","Ë","Ì","Í","Î","Ï","Ð","Ñ","Ò","Ó","Ô","Õ","Ö","×","Ø","Ù","Ú","Û","Ü","Ý","Þ","ß","à","á","â","ã","ä","å","æ","ç","è","é","ê","ë","ì","í","î","ï","ð","ñ","ò","ó","ô","õ","ö","÷","ø","ù","ú","û","ü","ý","þ","ÿ","U+017F","U+0660","U+0661","U+0662","U+0663","U+0664","U+0665","U+0666","U+0667","U+0668","U+0669","U+1680","U+2000","U+2001","U+2002","U+2003","U+2004","U+2005","U+2006","U+2007","U+2008","U+2009","U+200A","U+2028","U+2029","U+202F","U+205F","U+26A0","U+2705","U+274C","U+3000","U+FE0F">>

Ord(c) == CHOOSE k \in 1..Len(CodePoints) : CodePoints[k] = c

\* The lower case of an ASCII letter, any other character as it is.
Lower(c) == IF \E k \in 1..26 : UpperCase[k] = c
            THEN LowerCase[CHOOSE k \in 1..26 : UpperCase[k] = c]
            ELSE c

\* Character c matches the ASCII letter or sign p of a pattern compiled
\* with re.IGNORECASE: the two cases of p and, for "s", the long s.
ignorecase(c, p) == Lower(c) = Lower(p) \/ (Lower(p) = "s" /\ c = "U+017F")

\* The text t matches the ASCII pattern text p under re.IGNORECASE.
ignorecase_eq(t, p) == Len(t) = Len(p) /\ \A k \in 1..Len(p) : ignorecase(t[k], p[k])

\* s < t on str: lexicographic by code point.
RECURSIVE str_lt(_, _)
str_lt(s, t) ==
    IF t = <<>> THEN FALSE
    ELSE IF s = <<>> THEN TRUE
    ELSE IF Head(s) = Head(t) THEN str_lt(Tail(s), Tail(t))
    ELSE Ord(Head(s)) < Ord(Head(t))

\* s.find(c) + 1: the first index of character c in s, 0 when absent.
find(s, c) ==
    IF \E k \in 1..Len(s) : s[k] = c
    THEN CHOOSE k \in 1..Len(s) : s[k] = c /\ \A j \in 1..(k-1) : s[j] # c
    ELSE 0

startswith(s, p) == Len(s) >= Len(p) /\ SubSeq(s, 1, Len(p)) = p
endswith(s, p) == Len(s) >= Len(p) /\ SubSeq(s, Len(s) - Len(p) + 1, Len(s)) = p

RECURSIVE lstrip(_)
lstrip(s) == IF s # <<>> /\ Head(s) \in Whitespace THEN lstrip(Tail(s)) ELSE s

RECURSIVE rstrip(_)
rstrip(s) ==
    IF s # <<>> /\ s[Len(s)] \in Whitespace THEN rstrip(SubSeq(s, 1, Len(s) - 1)) ELSE s

\* str.strip()
strip(s) == rstrip(lstrip(s))

\* " ".join / "".join
RECURSIVE join(_, _)
join(sep, parts) ==
    IF parts = <<>> THEN <<>>
    ELSE IF Len(parts) = 1 THEN parts[1]
    ELSE parts[1] \o sep \o join(sep, Tail(parts))

(* ---------------------------------------------------------------------- *)
(* load_env                                                                *)
(* ---------------------------------------------------------------------- *)

\* Reading in text mode (newline=None): "\r\n" and a lone "\r" arrive as
\* "\n".
universal_newlines(text) ==
    LET read == [k \in 1..Len(text) |->
                   IF text[k] = "\r" THEN "\n"
                   ELSE IF text[k] = "\n" /\ k > 1 /\ text[k - 1] = "\r" THEN ""
                   ELSE text[k]]
    IN  SelectSeq(read, LAMBDA c : c # "")

\* The lines of a decoded text, each with its "\n".
RECURSIVE split_lines(_)
split_lines(text) ==
    IF text = <<>> THEN <<>>
    ELSE LET i == find(text, "\n")
         IN  IF i = 0 THEN <<text>>
             ELSE <<SubSeq(text, 1, i)>> \o split_lines(SubSeq(text, i + 1, Len(text)))

\* "for line in f" on a text-mode file whose content is text.
file_lines(text) == split_lines(universal_newlines(text))

\* The text a Python escape stands for, of the characters repr() escapes.
Escapes == <<<<"\t", <<"\\","t">>>>,<<"\n", <<"\\","n">>>>,<<"U+000B", <<"\\","x","0","b">>>>,<<"\f", <<"\\","x","0","c">>>>,<<"\r", <<"\\","r">>>>,<<"U+001C", <<"\\","x","1","c">>>>,<<"U+001D", <<"\\","x","1","d">>>>,<<"U+001E", <<"\\","x","1","e">>>>,<<"U+001F", <<"\\","x","1","f">>>>,<<"U+0085", <<"\\","x","8","5">>>>,<<"U+00A0", <<"\\","x","a","0">>>>,<<"U+1680", <<"\\","u","1","6","8","0">>>>,<<"U+2000", <<"\\","u","2","0","0","0">>>>,<<"U+2001", <<"\\","u","2","0","0","1">>>>,<<"U+2002", <<"\\","u","2","0","0","2">>>>,<<"U+2003", <<"\\","u","2","0","0","3">>>>,<<"U+2004", <<"\\","u","2","0","0","4">>>>,<<"U+2005", <<"\\","u","2","0","0","5">>>>,<<"U+2006", <<"\\","u","2","0","0","6">>>>,<<"U+2007", <<"\\","u","2","0","0","7">>>>,<<"U+2008", <<"\\","u","2","0","0","8">>>>,<<"U+2009", <<"\\","u","2","0","0","9">>>>,<<"U+200A", <<"\\","u","2","0","0","a">>>>,<<"U+2028", <<"\\","u","2","0","2","8">>>>,<<"U+2029", <<"\\","u","2","0","2","9">>>>,<<"U+202F", <<"\\","u","2","0","2","f">>>>,<<"U+205F", <<"\\","u","2","0","5","f">>>>,<<"U+3000", <<"\\","u","3","0","0","0">>>>>>

\* repr(s)[1:-1] of one character, inside the quote sign quote.
repr_char(c, quote) ==
    IF c = "\\" THEN <<"\\", "\\">>
    ELSE IF c = quote THEN <<"\\", c>>
    ELSE IF \E k \in 1..Len(Escapes) : Escapes[k][1] = c
    THEN Escapes[CHOOSE k \in 1..Len(Escapes) : Escapes[k][1] = c][2]
    ELSE <<c>>

RECURSIVE repr_chars(_, _)
repr_chars(s, quote) ==
    IF s = <<>> THEN <<>> ELSE repr_char(Head(s), quote) \o repr_chars(Tail(s), quote)

\* repr(s) of a str: in single quotes, in double quotes when s has a single
\* quote and no double quote.
repr(s) ==
    LET has(c) == \E k \in 1..Len(s) : s[k] = c
        quote == IF has("'") /\ ~has("\"") THEN "\"" ELSE "'"
    IN  <<quote>> \o repr_chars(s, quote) \o <<quote>>

\* str(e) of an OSError raised by a system call on the path filename.
os_error(cls, filename) ==
    LET errno == CASE cls = "FileNotFoundError" -> <<"[","E","r","r","n","o"," ","2","]"," ","N","o"," ","s","u","c","h"," ","f","i","l","e"," ","o","r"," ","d","i","r","e","c","t","o","r","y">>
                   [] cls = "PermissionError" -> <<"[","E","r","r","n","o"," ","1","3","]"," ","P","e","r","m","i","s","s","i","o","n"," ","d","e","n","i","e","d">>
                   [] cls = "FileExistsError" -> <<"[","E","r","r","n","o"," ","1","7","]"," ","F","i","l","e"," ","e","x","i","s","t","s">>
                   [] cls = "NotADirectoryError" -> <<"[","E","r","r","n","o"," ","2","0","]"," ","N","o","t"," ","a"," ","d","i","r","e","c","t","o","r","y">>
                   [] cls = "IsADirectoryError" -> <<"[","E","r","r","n","o"," ","2","1","]"," ","I","s"," ","a"," ","d","i","r","e","c","t","o","r","y">>
    IN  Raise(cls, errno \o <<":"," ">> \o repr(filename))

EmptyDict == [k \in {} |-> <<>>]

\* d[k] = v
dict_set(d, k, v) == [x \in DOMAIN d \cup {k} |-> IF x = k THEN v ELSE d[x]]

\* A faulty split: at the last "=" of the line.
split_last_eq(line) ==
    LET i == Max({k \in 1..Len(line) : line[k] = "="})
    IN  <<SubSeq(line, 1, i - 1), SubSeq(line, i + 1, Len(line))>>

\* line.split('=', 1)
split_first_eq(line) ==
    LET i == find(line, "=")
    IN  <<SubSeq(line, 1, i - 1), SubSeq(line, i + 1, Len(line))>>

\* One pass of the loop body of load_env.
load_env_line(env_vars, raw) ==
    LET line == strip(raw)
    IN  IF line # <<>> /\ ~startswith(line, <<"#">>) /\ find(line, "=") # 0
        THEN LET kv == split_first_eq(line)
             IN  dict_set(env_vars, strip(kv[1]), strip(kv[2]))
        ELSE env_vars

RECURSIVE load_env_loop(_, _)
load_env_loop(env_vars, lines) ==
    IF lines = <<>> THEN env_vars
    ELSE load_env_loop(load_env_line(env_vars, Head(lines)), Tail(lines))

\* load_env(env_path): kind says what is at env_path: nothing ("missing"),
\* a directory, a file that may not be read ("denied"), a file that is not
\* UTF-8 because its first byte is 0xff ("undecodable"), or a file with the
\* content text ("file").
load_env(env_path, kind, text) ==
    CASE kind = "missing" ->
           Raise("FileNotFoundError",
                 <<".","e","n","v"," ","f","i","l","e"," ","n","o","t"," ","f","o","u","n","d"," ","a","t"," ">> \o env_path
                   \o <<"\n","C","o","p","y"," ",".","e","n","v",".","e","x","a","m","p","l","e"," ","t","o"," ",".","e","n","v"," ","a","n","d"," ","c","o","n","f","i","g","u","r","e"," ","y","o","u","r"," ","p","r","o","j","e","c","t"," ","p","a","t","h","s",".">>)
      [] kind = "directory" -> os_error("IsADirectoryError", env_path)
      [] kind = "denied" -> os_error("PermissionError", env_path)
      [] kind = "undecodable" ->
           Raise("UnicodeDecodeError",
                 <<"'","u","t","f","-","8","'"," ","c","o","d","e","c"," ","c","a","n","'","t"," ","d","e","c","o","d","e"," ","b","y","t","e"," ","0","x","f","f"," ","i","n"," ","p","o","s","i","t","i","o","n"," ","0",":"," ","i","n","v","a","l","i","d"," ","s","t","a","r","t"," ","b","y","t","e">>)
      [] kind = "file" -> Return(load_env_loop(EmptyDict, file_lines(text)))

(* ---------------------------------------------------------------------- *)
(* extract_ticket                                                          *)
(* ---------------------------------------------------------------------- *)

\* \b at the gap after s[k] (k = 0 is the start): exactly one side is \w.
word_boundary(s, k) ==
    (k >= 1 /\ s[k] \in WordChars) # (k + 1 <= Len(s) /\ s[k + 1] \in WordChars)

\* The ends j of a match of \bOS[-_](\d+)\b (IGNORECASE) that starts at i.
OS_TICKET_RE_ends(s, i) ==
    IF i + 3 <= Len(s)
       /\ word_boundary(s, i - 1)
       /\ ignorecase(s[i], "O")
       /\ ignorecase(s[i + 1], "S")
       /\ s[i + 2] \in {"-", "_"}
    THEN {j \in (i + 3)..Len(s) :
            /\ \A k \in (i + 3)..j : s[k] \in ReDigits
            /\ word_boundary(s, j)}
    ELSE {}

\* OS_TICKET_RE.search(s): group(1) of the leftmost match (\d+ is greedy),
\* None when there is no match.
OS_TICKET_RE_search(s) ==
    LET starts == {i \in 1..Len(s) : OS_TICKET_RE_ends(s, i) # {}}
    IN  IF starts = {} THEN None
        ELSE LET i == Min(starts)
             IN  SubSeq(s, i + 3, Max(OS_TICKET_RE_ends(s, i)))

extract_ticket(branch, latest_name, latest_ts) ==
    LET m == OS_TICKET_RE_search(branch)
        m2 == OS_TICKET_RE_search(latest_name)
    IN  IF m # None THEN m
        ELSE IF m2 # None THEN m2
        ELSE latest_ts

(* ---------------------------------------------------------------------- *)
(* list_migration_files                                                    *)
(* ---------------------------------------------------------------------- *)

\* \d{14} of MIGRATION_FILE_RE.
TsLen == 14

\* MIGRATION_FILE_RE.match(n): <<ts, name>>, None when n does not match
\* ^(?P<ts>\d{14})_(?P<name>.+)\.cs$ (IGNORECASE).  "." matches no "\n",
\* and "$" matches at the end and before a "\n" that ends n.
MIGRATION_FILE_RE_match(n) ==
    LET end == IF n # <<>> /\ n[Len(n)] = "\n" THEN Len(n) - 1 ELSE Len(n)
    IN  IF /\ end >= TsLen + 1 + 1 + 3
           /\ \A k \in 1..TsLen : n[k] \in ReDigits
           /\ n[TsLen + 1] = "_"
           /\ ignorecase_eq(SubSeq(n, end - 2, end), <<".","c","s">>)
           /\ \A k \in (TsLen + 2)..(end - 3) : n[k] # "\n"
        THEN <<SubSeq(n, 1, TsLen), SubSeq(n, TsLen + 2, end - 3)>>
        ELSE None

\* migrations_dir.glob("*.cs") on one name: pathlib matches the whole name
\* with the case rule of the platform: as it is on POSIX, under
\* re.IGNORECASE on Windows.
glob_cs(n, case_sensitive) ==
    IF case_sensitive THEN endswith(n, <<".","c","s">>)
    ELSE Len(n) >= 3 /\ ignorecase_eq(SubSeq(n, Len(n) - 2, Len(n)), <<".","c","s">>)

\* The loop body of list_migration_files for one directory entry.
list_migration_step(items, n, case_sensitive) ==
    IF ~glob_cs(n, case_sensitive) THEN items
    ELSE IF endswith(n, <<"S","n","a","p","s","h","o","t",".","c","s">>) \/ endswith(n, <<".","D","e","s","i","g","n","e","r",".","c","s">>) THEN items
    ELSE IF MIGRATION_FILE_RE_match(n) # None THEN Append(items, MIGRATION_FILE_RE_match(n))
    ELSE items

RECURSIVE list_migration_loop(_, _, _)
list_migration_loop(items, listing, case_sensitive) ==
    IF listing = <<>> THEN items
    ELSE list_migration_loop(list_migration_step(items, Head(listing), case_sensitive),
                             Tail(listing), case_sensitive)

\* list.sort(key=lambda x: x[0]) is stable: x goes after the items whose key
\* is not greater.
RECURSIVE sort_insert(_, _)
sort_insert(sorted, x) ==
    IF sorted = <<>> THEN <<x>>
    ELSE IF ~str_lt(x[1], Head(sorted)[1]) THEN <<Head(sorted)>> \o sort_insert(Tail(sorted), x)
    ELSE <<x>> \o sorted

RECURSIVE sort_by_ts(_)
sort_by_ts(items) ==
    IF items = <<>> THEN <<>>
    ELSE sort_insert(sort_by_ts(SubSeq(items, 1, Len(items) - 1)), items[Len(items)])

\* list_migration_files(migrations_dir): exists is migrations_dir.exists(),
\* listing the directory's names in the order the file system yields them
\* (a path that is a regular file exists and yields no name).
list_migration_files(migrations_dir, exists, listing, case_sensitive) ==
    IF ~exists
    THEN Raise("FileNotFoundError", <<"M","i","g","r","a","t","i","o","n","s"," ","d","i","r"," ","n","o","t"," ","f","o","u","n","d",":"," ">> \o migrations_dir)
    ELSE Return(sort_by_ts(list_migration_loop(<<>>, listing, case_sensitive)))

(* ---------------------------------------------------------------------- *)
(* Commands                                                                *)
(* ---------------------------------------------------------------------- *)

\* str(n) of a natural number.
RECURSIVE str_nat(_)
str_nat(n) ==
    LET d == <<"0","1","2","3","4","5","6","7","8","9">>[(n % 10) + 1]
    IN  IF n < 10 THEN <<d>> ELSE Append(str_nat(n \div 10), d)

\* str(n), f"{n}" of an int.
str_int(n) == IF n < 0 THEN <<"-">> \o str_nat(0 - n) ELSE str_nat(n)

\* What becomes of a child process: o.spawned is whether it could be started
\* (FALSE when the program is not found), o.ret its return code (negative
\* when a signal killed it), o.out what it wrote.

\* The print calls of run_stream: the command line and the working
\* directory, then each line of the child's output without its trailing
\* whitespace.
run_stream_prints(cmd, cwd, o) ==
    LET lines == IF o.spawned THEN file_lines(o.out) ELSE <<>>
    IN  <<<<"\n",">"," ">> \o join(<<" ">>, cmd) \o <<"\n"," "," "," ","(","c","w","d",":"," ">> \o cwd \o <<")">>>>
          \o [k \in 1..Len(lines) |-> rstrip(lines[k])]

\* run_stream(cmd, cwd) when the child process becomes o.
run_stream(cmd, cwd, o) ==
    IF ~o.spawned THEN os_error("FileNotFoundError", cmd[1])
    ELSE IF o.ret # 0
    THEN Raise("RuntimeError",
               <<"C","o","m","m","a","n","d"," ","f","a","i","l","e","d"," ","(","e","x","i","t"," ">> \o str_int(o.ret) \o <<")",":"," ">> \o join(<<" ">>, cmd))
    ELSE Return(join(<<>>, file_lines(o.out)))

\* try_output(cmd, cwd) when the child process becomes o: its output
\* stripped, "" when check_output raises (not started, or a return code
\* that is not 0).
try_output(o) ==
    IF o.spawned /\ o.ret = 0 THEN strip(universal_newlines(o.out)) ELSE <<>>

\* What try_output(cmd, cwd) adds to the standard error of the script:
\* check_output redirects the standard output of the child only, the child
\* inherits the standard error and what it writes arrives there as it is.
try_output_stderr(o) == IF o.spawned /\ o.err # <<>> THEN <<o.err>> ELSE <<>>

\* resolve_ef_mode(repo): global_o and local_o are what becomes of the two
\* version probes; the second runs only when the first gives "".
resolve_ef_mode(global_o, local_o) ==
    IF try_output(global_o) # <<>> THEN Return(<<"g","l","o","b","a","l">>)
    ELSE IF try_output(local_o) # <<>> THEN Return(<<"l","o","c","a","l">>)
    ELSE Raise("RuntimeError",
               <<"d","o","t","n","e","t","-","e","f"," ","n","o","t"," ","f","o","u","n","d",".","\n","I","n","s","t","a","l","l"," ","g","l","o","b","a","l","l","y",":"," "," ","d","o","t","n","e","t"," ","t","o","o","l"," ","i","n","s","t","a","l","l"," ","-","g"," ","d","o","t","n","e","t","-","e","f","\n","o","r"," ","a","s"," ","l","o","c","a","l"," ","t","o","o","l",":"," "," ","d","o","t","n","e","t"," ","n","e","w"," ","t","o","o","l","-","m","a","n","i","f","e","s","t"," ","&","&"," ","d","o","t","n","e","t"," ","t","o","o","l"," ","i","n","s","t","a","l","l"," ","d","o","t","n","e","t","-","e","f">>)

\* The command lines of the two version probes and of the branch query.
GlobalProbe == <<<<"d","o","t","n","e","t">>, <<"e","f">>, <<"-","-","v","e","r","s","i","o","n">>>>
LocalProbe == <<<<"d","o","t","n","e","t">>, <<"t","o","o","l">>, <<"r","u","n">>, <<"d","o","t","n","e","t","-","e","f">>, <<"-","-","v","e","r","s","i","o","n">>>>
GitQuery == <<<<"g","i","t">>, <<"r","e","v","-","p","a","r","s","e">>, <<"-","-","a","b","b","r","e","v","-","r","e","f">>, <<"H","E","A","D">>>>

ef_cmd(mode, a) ==
    (IF mode = <<"g","l","o","b","a","l">> THEN <<<<"d","o","t","n","e","t">>, <<"e","f">>>>
     ELSE <<<<"d","o","t","n","e","t">>, <<"t","o","o","l">>, <<"r","u","n">>, <<"d","o","t","n","e","t","-","e","f">>>>) \o a

add_context_arg(c, ctx) ==
    IF Truthy(ctx) THEN c \o <<<<"-","-","c","o","n","t","e","x","t">>, ctx>> ELSE c

\* git_branch(repo): o is what becomes of git rev-parse.
git_branch(o) == IF try_output(o) # <<>> THEN try_output(o) ELSE <<>>

\* s.split(sep) for a one-character sep.
RECURSIVE split(_, _)
split(s, sep) ==
    LET i == find(s, sep)
    IN  IF i = 0 THEN <<s>>
        ELSE <<SubSeq(s, 1, i - 1)>> \o split(SubSeq(s, i + 1, Len(s)), sep)

\* The root of a POSIX path text: "//" for exactly two leading slashes, "/"
\* for an absolute path, "" for a relative one.
path_root(s) ==
    IF startswith(s, <<"/","/">>) /\ ~startswith(s, <<"/","/","/">>) THEN <<"/","/">>
    ELSE IF startswith(s, <<"/">>) THEN <<"/">>
    ELSE <<>>

\* The components of a path text: pathlib drops the empty ones and ".".
path_parts(s) == SelectSeq(split(s, "/"), LAMBDA c : c # <<>> /\ c # <<".">>)

\* str() of the path with this root and these components.
path_str(root, parts) ==
    IF parts = <<>> THEN (IF root = <<>> THEN <<".">> ELSE root)
    ELSE root \o join(<<"/">>, parts)

\* str(Path(s))
Path(s) == path_str(path_root(s), path_parts(s))

\* Path(s).is_absolute()
is_absolute(s) == path_root(s) # <<>>

\* str(Path(a) / b): an absolute b replaces a.
truediv(a, b) ==
    IF is_absolute(b) THEN Path(b)
    ELSE path_str(path_root(a), path_parts(a) \o path_parts(b))

\* The components left when each ".." removes the component before it (and
\* is dropped at the root).
RECURSIVE drop_dotdot(_, _)
drop_dotdot(stack, parts) ==
    IF parts = <<>> THEN stack
    ELSE IF Head(parts) = <<".",".">>
    THEN drop_dotdot(IF stack = <<>> THEN <<>> ELSE SubSeq(stack, 1, Len(stack) - 1),
                     Tail(parts))
    ELSE drop_dotdot(Append(stack, Head(parts)), Tail(parts))

\* str(Path(s).resolve()) in the working directory cwd: absolute, without
\* "." and "..", with the root "/".
resolve(cwd, s) ==
    path_str(<<"/">>, drop_dotdot(<<>>, (IF is_absolute(s) THEN <<>> ELSE path_parts(cwd))
                                        \o path_parts(s)))

\* resolve_path(base, raw), base an absolute path.
resolve_path(base, raw) ==
    IF is_absolute(raw) THEN resolve(base, Path(raw)) ELSE resolve(base, truediv(base, raw))

\* d.get(k)
dict_get(d, k) == IF k \in DOMAIN d THEN d[k] ELSE None

\* The keys main reads with env_vars[...], in the order it reads them.
RequiredKeys == <<<<"R","E","P","O","_","P","A","T","H">>, <<"P","R","O","J","E","C","T","_","N","A","M","E">>, <<"S","T","A","R","T","U","P","_","P","R","O","J","E","C","T">>,
                  <<"M","I","G","R","A","T","I","O","N","S","_","D","I","R">>, <<"S","C","R","I","P","T","S","_","D","I","R">>>>

\* The first required key that env_vars lacks, 0 when none is missing.
first_missing(env) ==
    IF \E k \in 1..Len(RequiredKeys) : RequiredKeys[k] \notin DOMAIN env
    THEN Min({k \in 1..Len(RequiredKeys) : RequiredKeys[k] \notin DOMAIN env})
    ELSE 0

\* repo, project_path, startup_path, migrations_dir and scripts_dir of main,
\* in the working directory cwd.
repo_of(cwd, env) == resolve(cwd, env[<<"R","E","P","O","_","P","A","T","H">>])
project_path_of(cwd, env) == resolve_path(repo_of(cwd, env), env[<<"P","R","O","J","E","C","T","_","N","A","M","E">>])
startup_path_of(cwd, env) == resolve_path(repo_of(cwd, env), env[<<"S","T","A","R","T","U","P","_","P","R","O","J","E","C","T">>])
migrations_dir_of(cwd, env) == resolve_path(repo_of(cwd, env), env[<<"M","I","G","R","A","T","I","O","N","S","_","D","I","R">>])
scripts_dir_of(cwd, env) == resolve_path(repo_of(cwd, env), env[<<"S","C","R","I","P","T","S","_","D","I","R">>])

paths_of(cwd, env) ==
    [repo |-> repo_of(cwd, env),
     project_path |-> project_path_of(cwd, env),
     startup_path |-> startup_path_of(cwd, env),
     migrations_dir |-> migrations_dir_of(cwd, env),
     scripts_dir |-> scripts_dir_of(cwd, env)]

\* The "migrations add" command of create mode.
add_cmd(a, p, ctx) ==
    add_context_arg(<<<<"m","i","g","r","a","t","i","o","n","s">>, <<"a","d","d">>, a.create,
                      <<"-","-","p","r","o","j","e","c","t">>, p.project_path,
                      <<"-","-","s","t","a","r","t","u","p","-","p","r","o","j","e","c","t">>, p.startup_path>>, ctx)

build_cmd(p) == <<<<"d","o","t","n","e","t">>, <<"b","u","i","l","d">>, p.startup_path>>

\* The "migrations script" command of script emission.
script_cmd(a, p, ctx, from, to, out_sql) ==
    LET c == add_context_arg(<<<<"m","i","g","r","a","t","i","o","n","s">>, <<"s","c","r","i","p","t">>, from, to,
                               <<"-","-","p","r","o","j","e","c","t">>, p.project_path,
                               <<"-","-","s","t","a","r","t","u","p","-","p","r","o","j","e","c","t">>, p.startup_path,
                               <<"-","-","o","u","t","p","u","t">>, out_sql>>, ctx)
    IN  IF a.idempotent THEN c \o <<<<"-","-","i","d","e","m","p","o","t","e","n","t">>>> ELSE c

\* A faulty retry: the command line as it was.
retry_cmd_unchanged(c) == c

\* cmd.append("--no-build")
retry_cmd(c) == Append(c, <<"-","-","n","o","-","b","u","i","l","d">>)

\* A faulty check: one override is enough to pass it.
too_few_either(a, fs) == Len(fs) < 2 /\ ~(Truthy(a.from_mig) \/ Truthy(a.to_mig))

\* The condition of the "fewer than two migrations" branch of main.
too_few(a, fs) == Len(fs) < 2 /\ ~(Truthy(a.from_mig) /\ Truthy(a.to_mig))

\* A faulty resolution: the latest entry is taken to be the "from" entry.
resolve_ids_latest_prev(a, fs) ==
    IF Truthy(a.from_mig) /\ Truthy(a.to_mig)
    THEN [from_id |-> a.from_mig, to_id |-> a.to_mig,
          latest_ts |-> IF fs # <<>> THEN fs[Len(fs)][1] ELSE <<"l","a","t","e","s","t">>,
          latest_name |-> IF fs # <<>> THEN fs[Len(fs)][2] ELSE <<"l","a","t","e","s","t">>]
    ELSE [from_id |-> fs[Len(fs) - 1][1] \o <<"_">> \o fs[Len(fs) - 1][2],
          to_id |-> fs[Len(fs)][1] \o <<"_">> \o fs[Len(fs)][2],
          latest_ts |-> fs[Len(fs) - 1][1],
          latest_name |-> fs[Len(fs) - 1][2]]

\* A faulty resolution: one override is enough to use the overrides.
resolve_ids_either(a, fs) ==
    IF Truthy(a.from_mig) \/ Truthy(a.to_mig)
    THEN [from_id |-> a.from_mig, to_id |-> a.to_mig,
          latest_ts |-> IF fs # <<>> THEN fs[Len(fs)][1] ELSE <<"l","a","t","e","s","t">>,
          latest_name |-> IF fs # <<>> THEN fs[Len(fs)][2] ELSE <<"l","a","t","e","s","t">>]
    ELSE [from_id |-> fs[Len(fs) - 1][1] \o <<"_">> \o fs[Len(fs) - 1][2],
          to_id |-> fs[Len(fs)][1] \o <<"_">> \o fs[Len(fs)][2],
          latest_ts |-> fs[Len(fs)][1],
          latest_name |-> fs[Len(fs)][2]]

\* from_id, to_id, latest_ts and latest_name before the revert swap.
resolve_ids(a, fs) ==
    IF Truthy(a.from_mig) /\ Truthy(a.to_mig)
    THEN [from_id |-> a.from_mig, to_id |-> a.to_mig,
          latest_ts |-> IF fs # <<>> THEN fs[Len(fs)][1] ELSE <<"l","a","t","e","s","t">>,
          latest_name |-> IF fs # <<>> THEN fs[Len(fs)][2] ELSE <<"l","a","t","e","s","t">>]
    ELSE [from_id |-> fs[Len(fs) - 1][1] \o <<"_">> \o fs[Len(fs) - 1][2],
          to_id |-> fs[Len(fs)][1] \o <<"_">> \o fs[Len(fs)][2],
          latest_ts |-> fs[Len(fs)][1],
          latest_name |-> fs[Len(fs)][2]]

\* from_id, to_id = to_id, from_id when revert is requested.
revert_swap(a, ids) ==
    IF a.revert THEN [ids EXCEPT !.from_id = ids.to_id, !.to_id = ids.from_id] ELSE ids

\* ticket = args.ticket or extract_ticket(git_branch(repo), latest_name, latest_ts)
\* git_o is what becomes of git rev-parse, which runs only without a ticket
\* argument.
ticket_of(a, git_o, ids) ==
    Or(a.ticket, extract_ticket(git_branch(git_o), ids.latest_name, ids.latest_ts))

\* output_sql = scripts_dir / f"{ticket}{suffix}.sql"
output_sql_of(a, scripts_dir, tk) ==
    truediv(scripts_dir, tk \o (IF a.revert THEN <<"_","r","e","v","e","r","t">> ELSE <<>>) \o <<".","s","q","l">>)

\* The directories on the way to the absolute path p, p itself last.
parents_and_self(p) ==
    [i \in 1..Len(path_parts(p)) |-> path_str(path_root(p), SubSeq(path_parts(p), 1, i))]

\* scripts_dir.mkdir(parents=True, exist_ok=True).  at says what the file
\* system holds: at.found of the directories on the way to scripts_dir
\* exist, and the last of them (the root when at.found = 0) is of kind
\* at.kind: a directory, a directory in which nothing can be created
\* ("readonly"), a directory that cannot be searched ("unsearchable"), or a
\* regular file.  os.mkdir on scripts_dir comes first and fails with ENOENT
\* while a parent is absent; then the absent parents are made from the top.
mkdir(scripts_dir, at) ==
    LET chain == parents_and_self(scripts_dir)
        n == Len(chain)
    IN  IF at.found = n
        THEN (IF at.kind = "file" THEN os_error("FileExistsError", scripts_dir)
              ELSE Return(None))
        ELSE CASE at.kind = "directory" -> Return(None)
               [] at.kind = "readonly" -> os_error("PermissionError", chain[at.found + 1])
               [] at.kind = "unsearchable" -> os_error("PermissionError", scripts_dir)
               [] at.kind = "file" -> os_error("NotADirectoryError", scripts_dir)

\* The directories that mkdir call creates, in the order of their creation.
mkdir_made(scripts_dir, at) ==
    LET chain == parents_and_self(scripts_dir)
    IN  IF mkdir(scripts_dir, at).ok THEN SubSeq(chain, at.found + 1, Len(chain)) ELSE <<>>

\* The print calls at the start of create mode.
create_banner(a, p, ctx) ==
    <<<<"\n","=","=","="," ","C","r","e","a","t","i","n","g"," ","N","e","w"," ","M","i","g","r","a","t","i","o","n"," ","=","=","=">>,
      <<"R","e","p","o",":"," "," "," "," "," "," "," "," "," "," "," "," ">> \o p.repo,
      <<"P","r","o","j","e","c","t",":"," "," "," "," "," "," "," "," "," ">> \o p.project_path,
      <<"S","t","a","r","t","u","p",":"," "," "," "," "," "," "," "," "," ">> \o p.startup_path,
      <<"M","i","g","r","a","t","i","o","n"," ","n","a","m","e",":"," "," ">> \o a.create>>
      \o (IF Truthy(ctx) THEN <<<<"C","o","n","t","e","x","t",":"," "," "," "," "," "," "," "," "," ">> \o ctx>> ELSE <<>>)
      \o <<<<"=","=","=","=","=","=","=","=","=","=","=","=","=","=","=","=","=","=","=","=","=","=","=","=","=","=","=","=","=","=">>>>

MigrationCreated(a) == <<"\n","U+2705"," ","M","i","g","r","a","t","i","o","n"," ","c","r","e","a","t","e","d",":"," ">> \o a.create
SkippingScript == <<"S","k","i","p","p","i","n","g"," ","S","Q","L"," ","s","c","r","i","p","t"," ","g","e","n","e","r","a","t","i","o","n"," ","(","-","-","n","o","-","s","c","r","i","p","t"," ","f","l","a","g",")">>
GeneratingForNew == <<"\n","=","=","="," ","G","e","n","e","r","a","t","i","n","g"," ","S","Q","L"," ","S","c","r","i","p","t"," ","f","o","r"," ","N","e","w"," ","M","i","g","r","a","t","i","o","n"," ","=","=","=">>
OnlyOneMigration == <<"U+26A0","U+FE0F"," "," ","O","n","l","y"," ","o","n","e"," ","m","i","g","r","a","t","i","o","n"," ","e","x","i","s","t","s","."," ","C","a","n","n","o","t"," ","g","e","n","e","r","a","t","e"," ","S","Q","L"," ","s","c","r","i","p","t",".">>

\* The print calls of revert mode, before the swap.
revert_banner(ids) ==
    <<<<"\n","=","=","="," ","R","E","V","E","R","T"," ","M","O","D","E"," ","=","=","=">>,
      <<"G","e","n","e","r","a","t","i","n","g"," ","r","e","v","e","r","s","e"," ","S","Q","L"," ","(","r","o","l","l","b","a","c","k",")"," ","s","c","r","i","p","t">>,
      <<"S","w","a","p","p","i","n","g"," ","F","R","O","M"," ","(">> \o ids.from_id \o <<")"," ","a","n","d"," ","T","O"," ","(">> \o ids.to_id \o <<")","\n">>>>

\* The print calls before the build.
script_banner(p, ids, tk, out_sql, ctx) ==
    <<<<"\n","=","=","="," ","G","e","n","e","r","a","t","i","n","g"," ","S","Q","L"," ","S","c","r","i","p","t"," ","=","=","=">>,
      <<"R","e","p","o",":"," "," "," "," "," "," "," "," "," "," "," "," ">> \o p.repo,
      <<"P","r","o","j","e","c","t",":"," "," "," "," "," "," "," "," "," ">> \o p.project_path,
      <<"S","t","a","r","t","u","p",":"," "," "," "," "," "," "," "," "," ">> \o p.startup_path,
      <<"M","i","g","r","a","t","i","o","n","s"," ","d","i","r",":"," "," ">> \o p.migrations_dir,
      <<"S","c","r","i","p","t","s"," ","d","i","r",":"," "," "," "," "," ">> \o p.scripts_dir,
      <<"F","r","o","m"," ","m","i","g","r","a","t","i","o","n",":"," "," ">> \o ids.from_id,
      <<"T","o"," ","m","i","g","r","a","t","i","o","n",":"," "," "," "," ">> \o ids.to_id,
      <<"T","i","c","k","e","t",":"," "," "," "," "," "," "," "," "," "," ">> \o tk,
      <<"O","u","t","p","u","t"," ","S","Q","L",":"," "," "," "," "," "," ">> \o out_sql>>
      \o (IF Truthy(ctx) THEN <<<<"C","o","n","t","e","x","t",":"," "," "," "," "," "," "," "," "," ">> \o ctx>> ELSE <<>>)
      \o <<<<"=","=","=","=","=","=","=","=","=","=","=","=","=","=","=","=","=","=","=","=","=","=","=","=","=","=","=","=","=">>>>

ScriptGenerated(out_sql) == <<"\n","U+2705"," ","S","Q","L"," ","s","c","r","i","p","t"," ","g","e","n","e","r","a","t","e","d",":"," ">> \o out_sql

\* print(f"\n<cross> ERROR: {e}")
ErrorLine(e) == <<"\n","U+274C"," ","E","R","R","O","R",":"," ">> \o e.msg
(* ---------------------------------------------------------------------- *)
(* Inputs of a run                                                         *)
(* ---------------------------------------------------------------------- *)

\* Directories of a run of main hold at most MaxMainFiles entries.
MaxMainFiles == 2

\* What becomes of a command run_stream starts: it succeeds, it exits with
\* 1, a signal kills it (return code -9), or the program is not found (ret
\* and out then say nothing).
RunOutcomes ==
    {[spawned |-> TRUE, ret |-> 0, out |-> <<"D","o","n","e","."," ","\r","\n">>],
     [spawned |-> TRUE, ret |-> 1, out |-> <<"e","r","r","o","r",":"," ","x","\n">>],
     [spawned |-> TRUE, ret |-> 0 - 9, out |-> <<>>],
     [spawned |-> FALSE, ret |-> 0, out |-> <<>>]}

\* What becomes of a version probe: a version, an empty line, a failure
\* with its message on the standard output or on the standard error, or the
\* program is not found.
ProbeOutcomes ==
    {[spawned |-> TRUE, ret |-> 0, out |-> <<"8",".","0",".","1","\n">>, err |-> <<>>],
     [spawned |-> TRUE, ret |-> 0, out |-> <<"\n">>, err |-> <<>>],
     [spawned |-> TRUE, ret |-> 1, out |-> <<"N","o"," ","e","x","e","c","u","t","a","b","l","e"," ","f","o","u","n","d","\n">>, err |-> <<>>],
     [spawned |-> TRUE, ret |-> 1, out |-> <<>>,
      err |-> <<"N","o"," ","e","x","e","c","u","t","a","b","l","e"," ","f","o","u","n","d"," ","m","a","t","c","h","i","n","g"," ","c","o","m","m","a","n","d"," ","d","o","t","n","e","t","-","e","f","\n">>],
     [spawned |-> FALSE, ret |-> 0, out |-> <<>>, err |-> <<>>]}

\* What becomes of git rev-parse: a branch name, or a failure outside a
\* repository with its message on the standard error.
GitOutcomes ==
    {[spawned |-> TRUE, ret |-> 0, out |-> <<"m","a","i","n","\n">>, err |-> <<>>],
     [spawned |-> TRUE, ret |-> 0, out |-> <<"f","e","a","t","u","r","e","/","O","S","-","1","2","3","-","x","\n">>, err |-> <<>>],
     [spawned |-> TRUE, ret |-> 128, out |-> <<>>, err |-> <<"f","a","t","a","l",":"," ","n","o","t"," ","a"," ","g","i","t"," ","r","e","p","o","s","i","t","o","r","y","\n">>]}

\* The values of an optional string flag: absent, empty, or v.
OptStr(v) == {None, <<>>, v}

\* The default of --env: .env beside the script.
DefaultEnv == <<"/","a","p","p","/",".","e","n","v">>

\* The namespace of an empty command line; main's args before parse_args.
NoArgs ==
    [create |-> None, no_script |-> FALSE, revert |-> FALSE, from_mig |-> None,
     to_mig |-> None, ticket |-> None, context |-> None, idempotent |-> FALSE,
     skip_build |-> FALSE, env |-> DefaultEnv]

\* The namespaces parse_args can return: the arguments that steer main in
\* every combination, and those that only shape a command line or the
\* output path with the others fixed.
ArgsSet ==
    [create : OptStr(<<"A","d","d","O","r","d","e","r","s">>),
     no_script : BOOLEAN,
     revert : BOOLEAN,
     from_mig : OptStr(<<"2","0","2","3","0","1","0","1","0","0","0","0","0","0","_","B","a","s","e">>),
     to_mig : {None, <<"0">>},
     ticket : {None},
     context : {None},
     idempotent : {FALSE},
     skip_build : BOOLEAN,
     env : {DefaultEnv}]
    \cup {[NoArgs EXCEPT !.create = c, !.context = x, !.idempotent = i, !.skip_build = TRUE] :
            c \in {None, <<"A","d","d","O","r","d","e","r","s">>}, x \in {None, <<>>, <<"A","p","p","D","b">>}, i \in BOOLEAN}
    \cup {[NoArgs EXCEPT !.ticket = t, !.revert = r, !.skip_build = TRUE] :
            t \in {<<"7","7">>, <<"/","a","b","s">>, <<"a","/","/","b","/",".","/","c">>, <<"/","/","x">>}, r \in BOOLEAN}
    \cup {[NoArgs EXCEPT !.env = e, !.skip_build = TRUE] :
            e \in {<<"/","a","p","p","/","/",".","/","m","y",".","e","n","v">>, <<"c","o","n","f","/",".",".","/","c","o","n","f","/","/","m","y",".","e","n","v">>}}

\* The usage text of the parser, formatted for 80 columns.
UsageText ==
    <<"u","s","a","g","e",":"," ","e","f","_","m","i","g","r","a","t","e","_","a","n","d","_","s","c","r","i","p","t",".","p","y"," ","[","-","h","]"," ","[","-","-","c","r","e","a","t","e"," ","N","A","M","E","]"," ","[","-","-","n","o","-","s","c","r","i","p","t","]"," ","[","-","-","r","e","v","e","r","t","]","\n"," "," "," "," "," "," "," "," "," "," "," "," "," "," "," "," "," "," "," "," "," "," "," "," "," "," "," "," "," "," "," "," ","[","-","-","f","r","o","m"," ","F","R","O","M","_","M","I","G","]"," ","[","-","-","t","o"," ","T","O","_","M","I","G","]","\n"," "," "," "," "," "," "," "," "," "," "," "," "," "," "," "," "," "," "," "," "," "," "," "," "," "," "," "," "," "," "," "," ","[","-","-","t","i","c","k","e","t"," ","T","I","C","K","E","T","]"," ","[","-","-","c","o","n","t","e","x","t"," ","C","O","N","T","E","X","T","]","\n"," "," "," "," "," "," "," "," "," "," "," "," "," "," "," "," "," "," "," "," "," "," "," "," "," "," "," "," "," "," "," "," ","[","-","-","i","d","e","m","p","o","t","e","n","t","]"," ","[","-","-","s","k","i","p","-","b","u","i","l","d","]"," ","[","-","-","e","n","v"," ","E","N","V","]">>

\* The help text of the parser, formatted for 80 columns.
HelpText ==
    UsageText \o <<"\n","\n","E","F"," ","C","o","r","e"," ","m","i","g","r","a","t","i","o","n"," ","s","c","r","i","p","t"," ","g","e","n","e","r","a","t","o","r","."," ","R","e","a","d","s"," ","c","o","n","f","i","g"," ","f","r","o","m"," ",".","e","n","v"," ","f","i","l","e",".","\n","\n","o","p","t","i","o","n","s",":","\n"," "," ","-","h",","," ","-","-","h","e","l","p"," "," "," "," "," "," "," "," "," ","s","h","o","w"," ","t","h","i","s"," ","h","e","l","p"," ","m","e","s","s","a","g","e"," ","a","n","d"," ","e","x","i","t","\n"," "," ","-","-","c","r","e","a","t","e"," ","N","A","M","E"," "," "," "," "," "," ","C","r","e","a","t","e"," ","a"," ","n","e","w"," ","m","i","g","r","a","t","i","o","n"," ","(","a","l","s","o"," ","g","e","n","e","r","a","t","e","s"," ","S","Q","L"," ","b","y"," ","d","e","f","a","u","l","t",")","\n"," "," ","-","-","n","o","-","s","c","r","i","p","t"," "," "," "," "," "," "," "," ","S","k","i","p"," ","S","Q","L"," ","s","c","r","i","p","t"," ","g","e","n","e","r","a","t","i","o","n"," ","a","f","t","e","r"," ","c","r","e","a","t","i","n","g"," ","m","i","g","r","a","t","i","o","n","\n"," "," ","-","-","r","e","v","e","r","t"," "," "," "," "," "," "," "," "," "," "," ","G","e","n","e","r","a","t","e"," ","S","Q","L"," ","s","c","r","i","p","t"," ","t","o"," ","r","e","v","e","r","t"," ","(","r","o","l","l","b","a","c","k",")"," ","t","h","e"," ","l","a","s","t","\n"," "," "," "," "," "," "," "," "," "," "," "," "," "," "," "," "," "," "," "," "," ","m","i","g","r","a","t","i","o","n","\n"," "," ","-","-","f","r","o","m"," ","F","R","O","M","_","M","I","G"," "," "," "," ","O","v","e","r","r","i","d","e"," ","'","f","r","o","m","'"," ","m","i","g","r","a","t","i","o","n"," ","i","d","\n"," "," ","-","-","t","o"," ","T","O","_","M","I","G"," "," "," "," "," "," "," "," ","O","v","e","r","r","i","d","e"," ","'","t","o","'"," ","m","i","g","r","a","t","i","o","n"," ","i","d","\n"," "," ","-","-","t","i","c","k","e","t"," ","T","I","C","K","E","T"," "," "," "," ","O","v","e","r","r","i","d","e"," ","t","i","c","k","e","t"," ","n","u","m","b","e","r"," ","f","o","r"," ","o","u","t","p","u","t"," ","f","i","l","e","n","a","m","e","\n"," "," ","-","-","c","o","n","t","e","x","t"," ","C","O","N","T","E","X","T"," "," ","D","b","C","o","n","t","e","x","t"," ","n","a","m","e"," ","(","i","f"," ","m","u","l","t","i","p","l","e"," ","c","o","n","t","e","x","t","s"," ","e","x","i","s","t",")","\n"," "," ","-","-","i","d","e","m","p","o","t","e","n","t"," "," "," "," "," "," "," ","G","e","n","e","r","a","t","e"," ","i","d","e","m","p","o","t","e","n","t"," ","s","c","r","i","p","t","\n"," "," ","-","-","s","k","i","p","-","b","u","i","l","d"," "," "," "," "," "," "," ","S","k","i","p"," ","d","o","t","n","e","t"," ","b","u","i","l","d"," ","s","t","e","p","\n"," "," ","-","-","e","n","v"," ","E","N","V"," "," "," "," "," "," "," "," "," "," ","P","a","t","h"," ","t","o"," ",".","e","n","v"," ","f","i","l","e">>

\* The line that ends the usage error of the parser.
UsageError(message) == <<"e","f","_","m","i","g","r","a","t","e","_","a","n","d","_","s","c","r","i","p","t",".","p","y",":"," ","e","r","r","o","r",":"," ">> \o message \o <<"\n">>

\* What parse_args makes of the command line: a namespace, the help request,
\* or a usage error with its message.
ParseOutcomes ==
    {[kind |-> "namespace", ns |-> a, message |-> <<>>] : a \in ArgsSet}
        \cup {[kind |-> "help", ns |-> NoArgs, message |-> <<>>]}
        \cup {[kind |-> "error", ns |-> NoArgs, message |-> m] :
                m \in {<<"u","n","r","e","c","o","g","n","i","z","e","d"," ","a","r","g","u","m","e","n","t","s",":"," ","-","-","b","o","g","u","s">>,
                       <<"a","r","g","u","m","e","n","t"," ","-","-","c","r","e","a","t","e",":"," ","e","x","p","e","c","t","e","d"," ","o","n","e"," ","a","r","g","u","m","e","n","t">>}}

\* The working directory of the run.
Cwd == <<"/","w">>

FullEnvText ==
    <<"#"," ","p","r","o","j","e","c","t","\r","\n","R","E","P","O","_","P","A","T","H","=","/","r","/","\r","\n","P","R","O","J","E","C","T","_","N","A","M","E"," ","="," ","P","/","\n","S","T","A","R","T","U","P","_","P","R","O","J","E","C","T","=",".","/","S"," ","\n","M","I","G","R","A","T","I","O","N","S","_","D","I","R","=","P","/",".",".","/","P","/","/","M","\f","\n","\n","S","C","R","I","P","T","S","_","D","I","R","=","/","d","/",".",".","/","d","/","o","u","t","\n">>

\* The .env file of a run: absent, not a readable text file, complete with
\* or without the optional key, with a relative REPO_PATH, or lacking a
\* required key.
EnvFiles ==
    {[kind |-> "missing", text |-> <<>>],
     [kind |-> "directory", text |-> <<>>],
     [kind |-> "denied", text |-> <<>>],
     [kind |-> "undecodable", text |-> <<>>],
     [kind |-> "file", text |-> FullEnvText],
     [kind |-> "file", text |-> FullEnvText \o <<"D","B","C","O","N","T","E","X","T","_","N","A","M","E","=","D","b","\r","R","E","P","O","_","P","A","T","H","=","r">>],
     [kind |-> "file", text |-> <<"R","E","P","O","_","P","A","T","H","=","/","r","\n","P","R","O","J","E","C","T","_","N","A","M","E","=","P","\n","#","S","T","A","R","T","U","P","_","P","R","O","J","E","C","T","=","S","\n">>]}

\* All sequences without repetition of at most n names of the set names.
RECURSIVE Listings(_, _)
Listings(names, n) ==
    IF n = 0 THEN {<<>>}
    ELSE LET shorter == Listings(names, n - 1)
         IN  shorter \cup
             UNION {{Append(l, x) : x \in names \ {l[k] : k \in 1..Len(l)}} :
                    l \in {s \in shorter : Len(s) = n - 1}}

MainNames ==
    {<<"2","0","2","4","0","1","0","1","0","0","0","0","0","0","_","I","n","i","t",".","c","s">>, <<"2","0","2","4","0","1","0","2","0","0","0","0","0","0","_","A","d","d","T","a","b","l","e",".","c","s">>,
     <<"A","p","p","D","b","M","o","d","e","l","S","n","a","p","s","h","o","t",".","c","s">>}

\* The migrations directory of a run: absent, or a listing.
MainDirs ==
    {[exists |-> FALSE, listing |-> <<>>]} \cup
    {[exists |-> TRUE, listing |-> l] : l \in Listings(MainNames, MaxMainFiles)}

\* What the file system can hold on the way to scripts_dir when main makes
\* the directory: all of the way and a directory or a regular file at its
\* end, or a part of it (or the root alone) and there a directory, one that
\* refuses new entries or the search, or a regular file.
ScriptsDirStates(scripts_dir) ==
    LET n == Len(path_parts(scripts_dir))
    IN  IF n = 0 THEN {[found |-> 0, kind |-> "directory"]}
        ELSE {[found |-> n, kind |-> k] : k \in {"directory", "file"}}
               \cup {[found |-> 0, kind |-> k] : k \in {"directory", "readonly"}}
               \cup {[found |-> i, kind |-> k] :
                        i \in 1..(n - 1),
                        k \in {"directory", "readonly", "unsearchable", "file"}}

(* ---------------------------------------------------------------------- *)
(* State                                                                   *)
(* ---------------------------------------------------------------------- *)

VARIABLES
    pc,          \* where the run is
    args,        \* argparse's namespace
    env_vars,    \* main's env_vars, empty before load_env
    paths,       \* main's repo, project_path, startup_path, migrations_dir, scripts_dir
    context,     \* main's context
    ef_mode,     \* main's ef_mode
    files,       \* main's files, NoFiles before the catalog scan
    ids,         \* main's from_id, to_id, latest_ts, latest_name
    branch,      \* what git_branch(repo) returned, None when it was not called
    ticket,      \* main's ticket
    output_sql,  \* main's output_sql
    cmd,         \* main's cmd of script emission
    queries,     \* the try_output invocations so far: [cmd, cwd]
    calls,       \* the run_stream invocations so far: [cmd, cwd, spawned, ret, out]
    made,        \* the directories mkdir created
    stdout,      \* the texts written to the standard output, one per print call
    stderr,      \* the texts written to the standard error, line ends included: one
                 \* per write of the parser and one per child process that wrote
    exc,         \* the exception propagating out of main, NoExc when none
    exit_code,   \* the process exit status, -1 while running
    input,       \* the argument of a function called on its own
    output       \* its result

vars == <<pc, args, env_vars, paths, context, ef_mode, files, ids, branch, ticket, output_sql,
          cmd, queries, calls, made, stdout, stderr, exc, exit_code, input, output>>

locals == <<env_vars, paths, context, ef_mode, files, ids, branch, ticket, output_sql, cmd>>

\* main's files before the catalog scan: no list of pairs.
NoFiles == << <<>> >>

\* No exception is propagating.
NoExc == [cls |-> "None", msg |-> <<>>]

NoIds == [from_id |-> None, to_id |-> None, latest_ts |-> None, latest_name |-> None]

NoPaths ==
    [repo |-> None, project_path |-> None, startup_path |-> None,
     migrations_dir |-> None, scripts_dir |-> None]

Init ==
    /\ pc = "parse_args"
    /\ args = NoArgs
    /\ env_vars = EmptyDict
    /\ paths = NoPaths
    /\ context = None
    /\ ef_mode = None
    /\ files = NoFiles
    /\ ids = NoIds
    /\ branch = None
    /\ ticket = None
    /\ output_sql = None
    /\ cmd = None
    /\ queries = <<>>
    /\ calls = <<>>
    /\ made = <<>>
    /\ stdout = <<>>
    /\ stderr = <<>>
    /\ exc = NoExc
    /\ exit_code = -1
    /\ input = None
    /\ output = None

\* A faulty create mode: --no-script is ignored.
after_create_always_scan(a) == "scan"

\* Where main goes after a successful "migrations add": it returns on
\* --no-script and goes on to the catalog otherwise.
after_create(a) == IF a.no_script THEN "returned" ELSE "scan"

\* A faulty build step: --skip-build is ignored.
after_resolve_always_build(a) == "build"

\* if not args.skip_build: the build runs before script emission.
after_resolve(a) == IF a.skip_build THEN "script" ELSE "build"

\* A faulty top level: the handler prints the error and exits normally.
exit_status_zero(e) == 0

\* The exit status of the process: sys.exit(1) in the handler of the top
\* level, 0 when main returned.
exit_status(e) == IF e # NoExc THEN 1 ELSE 0

\* An exception e leaves main.
Raised(e) ==
    /\ exc' = [cls |-> e.cls, msg |-> e.msg]
    /\ pc' = "raised"

\* The entry of calls for a run_stream invocation.
Call(c, cwd, o) == [cmd |-> c, cwd |-> cwd, spawned |-> o.spawned, ret |-> o.ret, out |-> o.out]

\* The entry of queries for a try_output invocation.
Query(c, cwd) == [cmd |-> c, cwd |-> cwd]

(* ---------------------------------------------------------------------- *)
(* main                                                                    *)
(* ---------------------------------------------------------------------- *)

\* args = ap.parse_args(): on a usage error the parser writes the usage and
\* the error to the standard error and exits with status 2; on --help it
\* writes the help text and exits with status 0.  SystemExit is no
\* Exception: the handler of the top level lets it pass.
ParseArgs ==
    /\ pc = "parse_args"
    /\ \E p \in ParseOutcomes :
         CASE p.kind = "namespace" ->
                /\ args' = p.ns
                /\ pc' = "load_env"
                /\ UNCHANGED <<stdout, stderr, exit_code>>
           [] p.kind = "help" ->
                /\ stdout' = Append(stdout, HelpText)
                /\ exit_code' = 0
                /\ pc' = "exited"
                /\ UNCHANGED <<args, stderr>>
           [] p.kind = "error" ->
                /\ stderr' = stderr \o <<UsageText \o <<"\n">>, UsageError(p.message)>>
                /\ exit_code' = 2
                /\ pc' = "exited"
                /\ UNCHANGED <<args, stdout>>
    /\ UNCHANGED <<locals, queries, calls, made, exc, input, output>>

\* env_vars = load_env(Path(args.env)), the lookups of the required keys and
\* the paths.
LoadEnv ==
    /\ pc = "load_env"
    /\ \E f \in EnvFiles :
         LET r == load_env(Path(args.env), f.kind, f.text)
         IN  IF ~r.ok
             THEN Raised(r) /\ UNCHANGED <<env_vars, paths, context>>
             ELSE IF first_missing(r.val) # 0
             THEN /\ Raised(Raise("KeyError", repr(RequiredKeys[first_missing(r.val)])))
                  /\ env_vars' = r.val
                  /\ UNCHANGED <<paths, context>>
             ELSE /\ env_vars' = r.val
                  /\ paths' = paths_of(Cwd, r.val)
                  /\ context' = Or(args.context, dict_get(r.val, <<"D","B","C","O","N","T","E","X","T","_","N","A","M","E">>))
                  /\ pc' = "resolve_ef"
                  /\ UNCHANGED exc
    /\ UNCHANGED <<args, ef_mode, files, ids, branch, ticket, output_sql, cmd, queries, calls,
                   made, stdout, stderr, exit_code, input, output>>

\* ef_mode = resolve_ef_mode(repo): the local probe runs only when the
\* global one gave nothing; what the probes write on the standard error
\* shows on that of the script.
ResolveEfMode ==
    /\ pc = "resolve_ef"
    /\ \E g \in ProbeOutcomes, l \in ProbeOutcomes :
         LET r == resolve_ef_mode(g, l)
         IN  /\ queries' = queries \o <<Query(GlobalProbe, paths.repo)>>
                             \o (IF try_output(g) # <<>> THEN <<>>
                                 ELSE <<Query(LocalProbe, paths.repo)>>)
             /\ stderr' = stderr \o try_output_stderr(g)
                             \o (IF try_output(g) # <<>> THEN <<>> ELSE try_output_stderr(l))
             /\ IF ~r.ok
                THEN Raised(r) /\ UNCHANGED ef_mode
                ELSE /\ ef_mode' = r.val
                     /\ pc' = IF Truthy(args.create) THEN "create" ELSE "scan"
                     /\ UNCHANGED exc
    /\ UNCHANGED <<args, env_vars, paths, context, files, ids, branch, ticket, output_sql, cmd,
                   calls, made, stdout, exit_code, input, output>>

\* if args.create: run "migrations add"; stop there on --no-script.
CreateMigration ==
    /\ pc = "create"
    /\ \E o \in RunOutcomes :
         LET c == ef_cmd(ef_mode, add_cmd(args, paths, context))
             r == run_stream(c, paths.repo, o)
             printed == stdout \o create_banner(args, paths, context)
                          \o run_stream_prints(c, paths.repo, o)
         IN  /\ calls' = Append(calls, Call(c, paths.repo, o))
             /\ IF ~r.ok
                THEN Raised(r) /\ stdout' = printed
                ELSE /\ UNCHANGED exc
                     /\ pc' = after_create(args)
                     /\ stdout' = printed \o <<MigrationCreated(args)>>
                                    \o (IF args.no_script THEN <<SkippingScript>>
                                        ELSE <<GeneratingForNew>>)
    /\ UNCHANGED <<args, locals, queries, made, stderr, exit_code, input, output>>

\* files = list_migration_files(migrations_dir) and the check of its length.
ScanCatalog ==
    /\ pc = "scan"
    /\ \E d \in MainDirs, case_sensitive \in BOOLEAN :
         LET r == list_migration_files(paths.migrations_dir, d.exists, d.listing,
                                       case_sensitive)
         IN  IF ~r.ok
             THEN Raised(r) /\ UNCHANGED <<files, stdout>>
             ELSE /\ files' = r.val
                  /\ IF too_few(args, r.val)
                     THEN IF Truthy(args.create)
                          THEN /\ stdout' = Append(stdout, OnlyOneMigration)
                               /\ pc' = "returned"
                               /\ UNCHANGED exc
                          ELSE /\ Raised(Raise("RuntimeError",
                                               <<"N","e","e","d"," ","a","t"," ","l","e","a","s","t"," ","t","w","o"," ","m","i","g","r","a","t","i","o","n","s"," ","i","n"," ">>
                                                 \o paths.migrations_dir))
                               /\ UNCHANGED stdout
                     ELSE /\ pc' = "resolve"
                          /\ UNCHANGED <<exc, stdout>>
    /\ UNCHANGED <<args, env_vars, paths, context, ef_mode, ids, branch, ticket, output_sql, cmd,
                   queries, calls, made, stderr, exit_code, input, output>>

\* from_id and to_id, the revert swap, the ticket (git is asked only when
\* there is no ticket argument, and what it writes on the standard error
\* shows on that of the script), the output path, the scripts directory
\* with its absent parents, and the summary.
ResolveScript ==
    /\ pc = "resolve"
    /\ \E g \in GitOutcomes, at \in ScriptsDirStates(paths.scripts_dir) :
         LET fwd == resolve_ids(args, files)
             swapped == revert_swap(args, fwd)
             tk == ticket_of(args, g, fwd)
             out_sql == output_sql_of(args, paths.scripts_dir, tk)
             m == mkdir(paths.scripts_dir, at)
             printed == stdout \o (IF args.revert THEN revert_banner(fwd) ELSE <<>>)
         IN  /\ ids' = swapped
             /\ IF Truthy(args.ticket)
                THEN UNCHANGED <<branch, queries, stderr>>
                ELSE /\ branch' = git_branch(g)
                     /\ queries' = Append(queries, Query(GitQuery, paths.repo))
                     /\ stderr' = stderr \o try_output_stderr(g)
             /\ ticket' = tk
             /\ output_sql' = out_sql
             /\ IF ~m.ok
                THEN /\ Raised(m)
                     /\ stdout' = printed
                     /\ UNCHANGED made
                ELSE /\ made' = made \o mkdir_made(paths.scripts_dir, at)
                     /\ stdout' = printed \o script_banner(paths, swapped, tk, out_sql, context)
                     /\ pc' = after_resolve(args)
                     /\ UNCHANGED exc
    /\ UNCHANGED <<args, env_vars, paths, context, ef_mode, files, cmd, calls,
                   exit_code, input, output>>

\* if not args.skip_build: run the build.
Build ==
    /\ pc = "build"
    /\ \E o \in RunOutcomes :
         LET c == build_cmd(paths)
             r == run_stream(c, paths.repo, o)
         IN  /\ calls' = Append(calls, Call(c, paths.repo, o))
             /\ stdout' = stdout \o run_stream_prints(c, paths.repo, o)
             /\ IF ~r.ok THEN Raised(r) ELSE pc' = "script" /\ UNCHANGED exc
    /\ UNCHANGED <<args, locals, queries, made, stderr, exit_code, input, output>>

\* The first run of the script command, inside the try: any Exception of
\* run_stream leads to the except branch.
ScriptFirst ==
    /\ pc = "script"
    /\ \E o \in RunOutcomes :
         LET c == script_cmd(args, paths, context, ids.from_id, ids.to_id, output_sql)
             r == run_stream(ef_cmd(ef_mode, c), paths.repo, o)
             printed == stdout \o run_stream_prints(ef_cmd(ef_mode, c), paths.repo, o)
         IN  /\ calls' = Append(calls, Call(ef_cmd(ef_mode, c), paths.repo, o))
             /\ IF ~r.ok
                THEN /\ cmd' = retry_cmd(c)
                     /\ pc' = "retry"
                     /\ stdout' = printed
                ELSE /\ cmd' = c
                     /\ stdout' = Append(printed, ScriptGenerated(output_sql))
                     /\ pc' = "returned"
    /\ UNCHANGED <<args, env_vars, paths, context, ef_mode, files, ids, branch, ticket,
                   output_sql, queries, made, stderr, exc, exit_code, input, output>>

\* The except branch: the script command once more, with --no-build.
ScriptRetry ==
    /\ pc = "retry"
    /\ \E o \in RunOutcomes :
         LET r == run_stream(ef_cmd(ef_mode, cmd), paths.repo, o)
             printed == stdout \o run_stream_prints(ef_cmd(ef_mode, cmd), paths.repo, o)
         IN  /\ calls' = Append(calls, Call(ef_cmd(ef_mode, cmd), paths.repo, o))
             /\ IF ~r.ok
                THEN Raised(r) /\ stdout' = printed
                ELSE /\ stdout' = Append(printed, ScriptGenerated(output_sql))
                     /\ pc' = "returned"
                     /\ UNCHANGED exc
    /\ UNCHANGED <<args, locals, queries, made, stderr, exit_code, input, output>>

\* main returned: the interpreter exits with status 0.
ExitOk ==
    /\ pc = "returned"
    /\ pc' = "exited"
    /\ exit_code' = exit_status(exc)
    /\ UNCHANGED <<args, locals, queries, calls, made, stdout, stderr, exc, input, output>>

\* except Exception as e: print the error and sys.exit(1).
ExitError ==
    /\ pc = "raised"
    /\ pc' = "exited"
    /\ stdout' = Append(stdout, ErrorLine(exc))
    /\ exit_code' = exit_status(exc)
    /\ UNCHANGED <<args, locals, queries, calls, made, stderr, exc, input, output>>

Next ==
    \/ ParseArgs
    \/ LoadEnv
    \/ ResolveEfMode
    \/ CreateMigration
    \/ ScanCatalog
    \/ ResolveScript
    \/ Build
    \/ ScriptFirst
    \/ ScriptRetry
    \/ ExitOk
    \/ ExitError

Spec == Init /\ [][Next]_vars

(* ---------------------------------------------------------------------- *)
(* The functions called on their own                                       *)
(* ---------------------------------------------------------------------- *)

\* Ticket numbers in the generated names have at most MaxDigits digits.
MaxDigits == 2
\* Configuration texts have at most MaxLines lines.
MaxLines == 2
\* Directory listings have at most MaxFiles entries.
MaxFiles == 2

\* The variables of main, at rest while a function is called on its own.
MainIdle ==
    /\ args = NoArgs
    /\ env_vars = EmptyDict
    /\ paths = NoPaths
    /\ context = None
    /\ ef_mode = None
    /\ files = NoFiles
    /\ ids = NoIds
    /\ branch = None
    /\ ticket = None
    /\ output_sql = None
    /\ cmd = None
    /\ queries = <<>>
    /\ calls = <<>>
    /\ made = <<>>
    /\ stdout = <<>>
    /\ stderr = <<>>
    /\ exc = NoExc
    /\ exit_code = -1

main_vars == <<args, locals, queries, calls, made, stdout, stderr, exc, exit_code>>

\* Runs of one to n of the digit 4.
RECURSIVE DigitRuns(_)
DigitRuns(n) == IF n = 0 THEN {} ELSE DigitRuns(n - 1) \cup {[k \in 1..n |-> "4"]}

\* Names that carry the ticket keyword, a separator and digits, between a
\* prefix and a suffix.
TicketNames(prefixes, suffixes) ==
    {p \o k \o s \o d \o x :
        p \in prefixes, k \in {<<"O","S">>, <<"o","s">>, <<"S">>}, s \in {<<"-">>, <<"_">>, <<".">>},
        d \in DigitRuns(MaxDigits), x \in suffixes}

TicketBranches ==
    {<<>>, <<"m","a","i","n">>, <<"f","e","a","t","u","r","e","/","O","S","-","1","2","3","-","x">>, <<"O","S","-","1","/","o","s","_","2">>, <<"é","O","S","-","1","2">>, <<"O","S","-","1","2","é">>,
     <<"O","S","-","1","2","²">>, <<"o","U+017F","-","1","2">>, <<"O","S","-","U+0661","U+0662">>, <<"O","S","-","1","U+0662","x">>, <<"O","S","-","1","2","U+000B">>}
        \cup TicketNames({<<>>, <<"f","/">>, <<"x">>, <<"f","_">>}, {<<>>, <<"-","x">>, <<"_","A">>, <<"b">>})

TicketMigrationNames ==
    {<<"A","d","d","T","a","b","l","e">>, <<"O","S","_","4","5","6","_","A","d","d","T","a","b","l","e">>, <<"O","S","_","4","5","6">>}
        \cup TicketNames({<<>>, <<"A","d","d","_">>}, {<<>>, <<"_","A">>})

TicketInputs ==
    {<<b, n, <<"2","0","2","4","0","1","0","1","0","0","0","0","0","0">>>> : b \in TicketBranches, n \in TicketMigrationNames}

InitTicket ==
    /\ pc = "extract_ticket"
    /\ input \in TicketInputs
    /\ output = None
    /\ MainIdle

CallExtractTicket ==
    /\ pc = "extract_ticket"
    /\ output' = extract_ticket(input[1], input[2], input[3])
    /\ pc' = "extract_ticket_done"
    /\ UNCHANGED <<input, main_vars>>

SpecTicket == InitTicket /\ [][CallExtractTicket]_vars

\* The lines configuration texts are made of.
EnvLines ==
    {<<"A","=","1">>, <<"A","=","2">>, <<" ","B"," ","="," ","x","=","y"," ">>, <<"#","C","=","3">>, <<" "," ","#"," ","c">>, <<>>, <<" "," ">>,
     <<"n","o","e","q">>, <<"=","v">>, <<"K","=">>, <<"A"," ","=","1"," ">>, <<"U+000B","A","U+00A0","=","U+001F","1","\f">>, <<"U+0085">>, <<"E","=","é"," ","U+2003">>}

\* The line ends of a text file.
LineEnds == {<<"\n">>, <<"\r","\n">>, <<"\r">>}

\* The texts of at most n lines, each with its line end.
RECURSIVE EnvTexts(_)
EnvTexts(n) ==
    IF n = 0 THEN {<<>>}
    ELSE {<<>>} \cup {l \o e \o t : l \in EnvLines, e \in LineEnds, t \in EnvTexts(n - 1)}

EnvInputs ==
    {[env_path |-> DefaultEnv, kind |-> k, text |-> <<>>] :
        k \in {"missing", "directory", "denied", "undecodable"}}
        \cup {[env_path |-> <<"i","t","'","s","/","U+000B",".","e","n","v">>, kind |-> "missing", text |-> <<>>],
              [env_path |-> <<"i","t","'","s","/","U+000B",".","e","n","v">>, kind |-> "directory", text |-> <<>>]}
        \cup {[env_path |-> DefaultEnv, kind |-> "file", text |-> t] : t \in EnvTexts(MaxLines)}
        \cup {[env_path |-> DefaultEnv, kind |-> "file", text |-> <<"A","=","1","\n","B","=","2">>]}

InitLoadEnv ==
    /\ pc = "load_env_call"
    /\ input \in EnvInputs
    /\ output = None
    /\ MainIdle

CallLoadEnv ==
    /\ pc = "load_env_call"
    /\ output' = load_env(input.env_path, input.kind, input.text)
    /\ pc' = "load_env_done"
    /\ UNCHANGED <<input, main_vars>>

SpecLoadEnv == InitLoadEnv /\ [][CallLoadEnv]_vars

\* The names directory listings are made of.
CatalogNames ==
    {<<"2","0","2","4","0","1","0","2","0","0","0","0","0","0","_","B",".","c","s">>, <<"2","0","2","4","0","1","0","1","0","0","0","0","0","0","_","A",".","c","s">>, <<"2","0","2","4","0","1","0","1","0","0","0","0","0","0","_","Z",".","c","s">>,
     <<"2","0","2","4","0","1","0","3","0","0","0","0","0","0","_","C",".","D","e","s","i","g","n","e","r",".","c","s">>, <<"A","p","p","D","b","M","o","d","e","l","S","n","a","p","s","h","o","t",".","c","s">>,
     <<"2","0","2","4","0","1","0","4","0","0","0","0","0","0","_","D",".","C","S">>, <<"2","0","2","4","0","1","0","5","0","0","0","0","0","_","E",".","c","s">>, <<"2","0","2","4","0","1","0","6","0","0","0","0","0","0","_","F",".","t","x","t">>,
     <<"2","0","2","4","0","1","0","7","0","0","0","0","0","0","_","G",".","c","U+017F">>, <<"U+0662","U+0660","U+0662","U+0664","U+0660","U+0661","U+0660","U+0661","U+0660","U+0660","U+0660","U+0660","U+0660","U+0660","_","H",".","c","s">>,
     <<"2","0","2","4","0","1","0","8","0","0","0","0","0","0","_","I",".","c","s","\n">>, <<"2","0","2","4","0","1","0","9","0","0","0","0","0","0","_","\n",".","c","s">>}

\* The path of the migrations directory.
CatalogDir == <<"/","r","/","P","/","M">>

CatalogInputs ==
    {[exists |-> FALSE, listing |-> <<>>, case_sensitive |-> TRUE]}
        \cup {[exists |-> TRUE, listing |-> l, case_sensitive |-> c] :
                l \in Listings(CatalogNames, MaxFiles), c \in BOOLEAN}

InitCatalog ==
    /\ pc = "list_migration_files"
    /\ input \in CatalogInputs
    /\ output = None
    /\ MainIdle

CallListMigrationFiles ==
    /\ pc = "list_migration_files"
    /\ output' = list_migration_files(CatalogDir, input.exists, input.listing,
                                      input.case_sensitive)
    /\ pc' = "list_migration_files_done"
    /\ UNCHANGED <<input, main_vars>>

SpecCatalog == InitCatalog /\ [][CallListMigrationFiles]_vars

(* ---------------------------------------------------------------------- *)
(* Properties                                                              *)
(* ---------------------------------------------------------------------- *)

\* The arguments of a dotnet-ef command line after its launcher prefix.
EfArgs(c) ==
    IF Len(c) >= 2 /\ c[1] = <<"d","o","t","n","e","t">> /\ c[2] = <<"e","f">> THEN SubSeq(c, 3, Len(c))
    ELSE IF Len(c) >= 4 /\ SubSeq(c, 1, 4) = <<<<"d","o","t","n","e","t">>, <<"t","o","o","l">>, <<"r","u","n">>, <<"d","o","t","n","e","t","-","e","f">>>>
    THEN SubSeq(c, 5, Len(c))
    ELSE <<>>

IsMigrations(c, sub) ==
    LET a == EfArgs(c) IN Len(a) >= 2 /\ a[1] = <<"m","i","g","r","a","t","i","o","n","s">> /\ a[2] = sub

\* The positions in calls of the three kinds of command.
ScriptCalls == {i \in 1..Len(calls) : IsMigrations(calls[i].cmd, <<"s","c","r","i","p","t">>)}
AddCalls == {i \in 1..Len(calls) : IsMigrations(calls[i].cmd, <<"a","d","d">>)}
BuildCalls ==
    {i \in 1..Len(calls) : calls[i].cmd[1] = <<"d","o","t","n","e","t">> /\ calls[i].cmd[2] = <<"b","u","i","l","d">>}

\* Call i failed: the program did not start, or it ended with a return code
\* that is not 0.
CallFailed(i) == ~calls[i].spawned \/ calls[i].ret # 0

\* The exception in flight is the command failure of call i, with its exit code.
CommandFailure(i) ==
    /\ exc.cls = "RuntimeError"
    /\ exc.msg = <<"C","o","m","m","a","n","d"," ","f","a","i","l","e","d"," ","(","e","x","i","t"," ">> \o str_int(calls[i].ret) \o <<")",":"," ">>
                   \o join(<<" ">>, calls[i].cmd)

\* The exception in flight is the failure of call i: the command failure when
\* the program ran, the error of the operating system when it did not start.
FailureOf(i) ==
    IF calls[i].spawned THEN CommandFailure(i)
    ELSE exc.cls = "FileNotFoundError" /\ exc.msg = os_error("FileNotFoundError", <<"d","o","t","n","e","t">>).msg

Failed == pc \in {"raised", "exited"} /\ exc # NoExc
Succeeded == pc \in {"returned", "exited"} /\ exc = NoExc

\* C1: the script command runs at most twice; after a first success there is
\* no second run; after a first failure there is exactly one more run, of
\* the same command line with --no-build appended; the run fails exactly
\* when that second run fails, with the failure of that run (the command
\* failure with its exit code when the command ran).
C1_ScriptRetriedOnce ==
    LET S == ScriptCalls
    IN  /\ Cardinality(S) <= 2
        /\ S # {} =>
             LET f == Min(S)
             IN  /\ ~CallFailed(f) => S = {f}
                 /\ (CallFailed(f) /\ pc = "retry") => S = {f}
                 /\ (CallFailed(f) /\ pc # "retry") =>
                       /\ S = {f, f + 1}
                       /\ calls[f + 1].cmd = Append(calls[f].cmd, <<"-","-","n","o","-","b","u","i","l","d">>)
                       /\ calls[f + 1].cwd = calls[f].cwd
                 /\ (exc # NoExc) <=> (Cardinality(S) = 2 /\ CallFailed(Max(S)))
                 /\ exc # NoExc => FailureOf(Max(S)) /\ Max(S) = Len(calls)
                 /\ (pc = "exited" /\ exc = NoExc) =>
                       /\ exit_code = 0
                       /\ stdout[Len(stdout)] = ScriptGenerated(output_sql)

\* A run whose first script command failed and whose retry failed too.
C1_Witness ==
    /\ Cardinality(ScriptCalls) = 2
    /\ pc = "exited"
    /\ exit_code = 1
    /\ CommandFailure(Len(calls))
    /\ calls[Len(calls)].cmd[Len(calls[Len(calls)].cmd)] = <<"-","-","n","o","-","b","u","i","l","d">>

\* The catalog was scanned, has fewer than two entries, and --from and --to
\* were not both given.
FewNoOverrides ==
    /\ files # NoFiles
    /\ Len(files) < 2
    /\ ~(args.from_mig # None /\ args.to_mig # None)

\* C2: with fewer than two catalog entries and no from/to overrides, a run
\* without --create fails with the RuntimeError "Need at least two
\* migrations", a run whose "migrations add" succeeded prints the warning and
\* returns without raising, and neither runs a build or a script command.
C2_InsufficientHistory ==
    FewNoOverrides =>
        /\ BuildCalls = {}
        /\ ScriptCalls = {}
        /\ args.create = None =>
             /\ Failed
             /\ exc.cls = "RuntimeError"
             /\ exc.msg = <<"N","e","e","d"," ","a","t"," ","l","e","a","s","t"," ","t","w","o"," ","m","i","g","r","a","t","i","o","n","s"," ","i","n"," ">> \o paths.migrations_dir
             /\ pc = "exited" => exit_code = 1
        /\ (AddCalls # {} /\ \A i \in AddCalls : ~CallFailed(i)) =>
             /\ Succeeded
             /\ stdout[Len(stdout)] = OnlyOneMigration
             /\ pc = "exited" => exit_code = 0

\* A create run that ended with the warning, and was given one override only.
C2_Witness ==
    /\ FewNoOverrides
    /\ args.from_mig # None
    /\ AddCalls # {}
    /\ Len(files) = 1
    /\ pc = "exited"
    /\ exit_code = 0

\* The ids were resolved.
Resolved == ids.from_id # None

EntryId(e) == e[1] \o <<"_">> \o e[2]

\* C3: with no overrides, from is the id of the second-to-last entry and to
\* the id of the last; under --revert the script command gets the two
\* swapped, while the ticket and the output file name still come from the
\* last catalog entry.
C3_FromToAndRevert ==
    (Resolved /\ args.from_mig = None /\ args.to_mig = None) =>
        /\ Len(files) >= 2
        /\ LET prev == EntryId(files[Len(files) - 1])
               last == EntryId(files[Len(files)])
               from == IF args.revert THEN last ELSE prev
               to == IF args.revert THEN prev ELSE last
           IN  /\ ids.from_id = from
               /\ ids.to_id = to
               /\ \A i \in ScriptCalls :
                    /\ EfArgs(calls[i].cmd)[3] = from
                    /\ EfArgs(calls[i].cmd)[4] = to
                    /\ EfArgs(calls[i].cmd)[10] = output_sql
        /\ args.ticket = None =>
             /\ ticket = extract_ticket(branch, files[Len(files)][2], files[Len(files)][1])
             /\ output_sql = paths.scripts_dir \o <<"/">> \o ticket
                               \o (IF args.revert THEN <<"_","r","e","v","e","r","t",".","s","q","l">> ELSE <<".","s","q","l">>)

\* A revert run that reached the script command and named its output after
\* the timestamp of the last entry.
C3_Witness ==
    /\ Resolved
    /\ args.from_mig = None /\ args.to_mig = None /\ args.ticket = None
    /\ args.revert
    /\ ScriptCalls # {}
    /\ ticket = files[Len(files)][1]
    /\ ids.from_id = EntryId(files[Len(files)])

\* The ticket pattern as the specification words it: "OS", then - or _, then digits,
\* in any case, anywhere in s.
PatternStarts(s) ==
    {i \in 1..(Len(s) - 3) :
        /\ Lower(s[i]) = "o" /\ Lower(s[i + 1]) = "s"
        /\ s[i + 2] \in {"-", "_"}
        /\ s[i + 3] \in Digits}

PatternDigits(s) ==
    LET i == Min(PatternStarts(s))
        j == Max({j \in (i + 3)..Len(s) : \A k \in (i + 3)..j : s[k] \in Digits})
    IN  SubSeq(s, i + 3, j)

\* C4: extract_ticket gives the digits of the pattern found anywhere in
\* branch, else those found in latest_name, else latest_ts; with the three
\* results the specification lists.
C4_TicketPriority ==
    pc = "extract_ticket_done" =>
        /\ output = IF PatternStarts(input[1]) # {} THEN PatternDigits(input[1])
                    ELSE IF PatternStarts(input[2]) # {} THEN PatternDigits(input[2])
                    ELSE input[3]
        /\ input = <<<<"f","e","a","t","u","r","e","/","O","S","-","1","2","3","-","x">>, <<"A","d","d","T","a","b","l","e">>, <<"2","0","2","4","0","1","0","1","0","0","0","0","0","0">>>>
             => output = <<"1","2","3">>
        /\ input = <<<<"m","a","i","n">>, <<"O","S","_","4","5","6","_","A","d","d","T","a","b","l","e">>, <<"2","0","2","4","0","1","0","1","0","0","0","0","0","0">>>>
             => output = <<"4","5","6">>
        /\ input = <<<<"m","a","i","n">>, <<"A","d","d","T","a","b","l","e">>, <<"2","0","2","4","0","1","0","1","0","0","0","0","0","0">>>>
             => output = <<"2","0","2","4","0","1","0","1","0","0","0","0","0","0">>

\* A file name of the form <14 digits>_<name>.cs, in any case, that has
\* neither the snapshot nor the designer suffix.
IsMigrationName(n) ==
    /\ Len(n) >= TsLen + 5
    /\ \A k \in 1..TsLen : n[k] \in Digits
    /\ n[TsLen + 1] = "_"
    /\ [k \in 1..3 |-> Lower(n[Len(n) - 3 + k])] = <<".","c","s">>
    /\ ~endswith(n, <<"S","n","a","p","s","h","o","t",".","c","s">>)
    /\ ~endswith(n, <<".","D","e","s","i","g","n","e","r",".","c","s">>)

PairOf(n) == <<SubSeq(n, 1, TsLen), SubSeq(n, TsLen + 2, Len(n) - 3)>>

\* C5: list_migration_files returns one pair for each migration file name of
\* the directory and nothing else, sorted ascending by timestamp, and raises
\* FileNotFoundError for a directory that does not exist.
C5_CatalogExact ==
    pc = "list_migration_files_done" =>
        IF ~input.exists
        THEN /\ ~output.ok
             /\ output.cls = "FileNotFoundError"
             /\ output.msg = <<"M","i","g","r","a","t","i","o","n","s"," ","d","i","r"," ","n","o","t"," ","f","o","u","n","d",":"," ">> \o CatalogDir
        ELSE /\ output.ok
             /\ LET r == output.val
                    want == {input.listing[k] : k \in {k \in 1..Len(input.listing) :
                                                         IsMigrationName(input.listing[k])}}
                IN  /\ Len(r) = Cardinality(want)
                    /\ \A n \in want : \E i \in 1..Len(r) : r[i] = PairOf(n)
                    /\ \A i \in 1..Len(r) : \E n \in want : r[i] = PairOf(n)
                    /\ \A i, j \in 1..Len(r) : i < j => ~str_lt(r[j][1], r[i][1])

\* s without its leading and trailing whitespace.
TrimOf(s) ==
    LET solid == {k \in 1..Len(s) : s[k] \notin Whitespace}
    IN  IF solid = {} THEN <<>> ELSE SubSeq(s, Min(solid), Max(solid))

\* The line is a KEY=VALUE line: not blank, no comment, and it has an "=".
IsKeyValueLine(l) ==
    /\ TrimOf(l) # <<>>
    /\ TrimOf(l)[1] # "#"
    /\ \E k \in 1..Len(l) : l[k] = "="

\* The key and the value of a KEY=VALUE line: the text before and after its
\* first "=", both trimmed.
KeyOf(l) ==
    LET t == TrimOf(l) IN TrimOf(SubSeq(t, 1, Min({k \in 1..Len(t) : t[k] = "="}) - 1))
ValueOf(l) ==
    LET t == TrimOf(l) IN TrimOf(SubSeq(t, Min({k \in 1..Len(t) : t[k] = "="}) + 1, Len(t)))

\* The positions of the KEY=VALUE lines of a configuration text.
KeyValueLines(text) ==
    {i \in 1..Len(file_lines(text)) : IsKeyValueLine(file_lines(text)[i])}

\* C6 as stated: the mapping holds exactly the KEY=VALUE lines of the text,
\* every one of them as an entry of its trimmed key and trimmed value.
C6_ExactLines ==
    (pc = "load_env_done" /\ input.kind = "file") =>
        /\ output.ok
        /\ {<<k, output.val[k]>> : k \in DOMAIN output.val}
             = {<<KeyOf(file_lines(input.text)[i]), ValueOf(file_lines(input.text)[i])>> :
                  i \in KeyValueLines(input.text)}

\* C6, amended: the keys of the mapping are exactly the trimmed keys of the
\* KEY=VALUE lines, and each key maps to the trimmed value of the last line
\* that has it; blank lines and comment lines add no entry.
C6_LastLineWins ==
    (pc = "load_env_done" /\ input.kind = "file") =>
        /\ output.ok
        /\ LET ls == file_lines(input.text)
               kv == KeyValueLines(input.text)
           IN  /\ DOMAIN output.val = {KeyOf(ls[i]) : i \in kv}
               /\ \A k \in DOMAIN output.val :
                    output.val[k] = ValueOf(ls[Max({i \in kv : KeyOf(ls[i]) = k})])

\* A text whose two lines set the same key, and a line with two "=".
C6_Witness ==
    /\ pc = "load_env_done"
    /\ input.text = <<"A","=","1","\n"," ","B"," ","="," ","x","=","y"," ","\n">> \/ input.text = <<"A","=","1","\n","A","=","2","\n">>
    /\ output.ok
    /\ <<"A">> \in DOMAIN output.val

\* The argument parser ended the run.
EndedByParser == pc = "exited" /\ args = NoArgs /\ env_vars = EmptyDict /\ exc = NoExc

\* Nothing was read or run.
NothingDone == queries = <<>> /\ calls = <<>> /\ made = <<>> /\ files = NoFiles

\* The parser rejected the command line: it ended the run and printed no help.
RejectedByParser == EndedByParser /\ stdout = <<>>

\* C7 as stated: every run ends with status 0 when it succeeds, and on any
\* failure with status 1 and an error message printed.
C7_ZeroOrOne ==
    pc = "exited" =>
        IF exc = NoExc /\ ~RejectedByParser
        THEN exit_code = 0
        ELSE /\ exit_code = 1
             /\ stdout # <<>>
             /\ stdout[Len(stdout)] = ErrorLine(exc)

\* C7, amended: a run the argument parser rejects ends with status 2, the
\* usage error on the standard error and nothing read or run, and a help
\* request with status 0 and the help text; every other run ends with
\* status 0 when main returned and with status 1 when an exception left
\* main (a missing or unreadable file, a missing key, tool or directory,
\* too few migrations, a failed command), and then the error message is the
\* last thing printed.
C7_ExitStatus ==
    /\ exit_code # -1 <=> pc = "exited"
    /\ pc = "raised" => exc # NoExc
    /\ pc = "returned" => exc = NoExc
    /\ exit_code = 2 <=> RejectedByParser
    /\ RejectedByParser =>
         /\ Len(stderr) = 2
         /\ stderr[1] = UsageText \o <<"\n">>
         /\ startswith(stderr[2], <<"e","f","_","m","i","g","r","a","t","e","_","a","n","d","_","s","c","r","i","p","t",".","p","y",":"," ","e","r","r","o","r",":"," ">>)
         /\ NothingDone
    /\ (EndedByParser /\ ~RejectedByParser) =>
         /\ exit_code = 0
         /\ stdout = <<HelpText>>
         /\ stderr = <<>>
         /\ NothingDone
    /\ (pc = "exited" /\ ~EndedByParser) =>
         /\ exit_code \in {0, 1}
         /\ exc = NoExc => /\ exit_code = 0
                           /\ \A k \in 1..Len(stdout) : ~startswith(stdout[k], <<"\n","U+274C"," ","E","R","R","O","R">>)
         /\ exc # NoExc => /\ exit_code = 1
                           /\ stdout # <<>>
                           /\ stdout[Len(stdout)] = <<"\n","U+274C"," ","E","R","R","O","R",":"," ">> \o exc.msg
         /\ (calls # <<>> /\ CallFailed(Len(calls))) => exit_code = 1
         /\ (files # NoFiles /\ too_few(args, files) /\ ~Truthy(args.create)) => exit_code = 1
         /\ (env_vars # EmptyDict /\ first_missing(env_vars) # 0) => exit_code = 1
         /\ (ef_mode = None /\ queries # <<>>) => exit_code = 1

\* A run that ended with status 1 on a missing key, and printed the error.
C7_Witness ==
    /\ pc = "exited"
    /\ exit_code = 1
    /\ exc.cls = "KeyError"
    /\ stdout = <<<<"\n","U+274C"," ","E","R","R","O","R",":"," ","'","S","T","A","R","T","U","P","_","P","R","O","J","E","C","T","'">>>>

\* C8: the build runs at most once; with --skip-build never; without it,
\* once, successfully, before the first script command; a failed build is
\* the last command of the run, which fails with that command failure.
C8_BuildBeforeScript ==
    LET B == BuildCalls
        S == ScriptCalls
    IN  /\ Cardinality(B) <= 1
        /\ args.skip_build => B = {}
        /\ (~args.skip_build /\ (S # {} \/ pc \in {"script", "retry"})) =>
             /\ Cardinality(B) = 1
             /\ ~CallFailed(Max(B))
             /\ \A s \in S : Max(B) < s
        /\ \A b \in B : CallFailed(b) =>
             /\ S = {}
             /\ b = Len(calls)
             /\ Failed
             /\ FailureOf(b)

\* A run whose build failed.
C8_Witness ==
    /\ pc = "exited"
    /\ BuildCalls # {}
    /\ calls[Len(calls)].ret # 0
    /\ Len(calls[Len(calls)].cmd) = 3
    /\ exit_code = 1

\* The run is past the create step without an exception.
PastCreate == pc \in {"scan", "resolve", "build", "script", "retry", "returned"}

\* C9: in create mode "migrations add" runs exactly once, first of all
\* commands and before the catalog scan; if it fails the run fails with the
\* command failure that carries its exit code, and if it succeeds under
\* --no-script the run ends successfully, in both cases with no catalog
\* scan and no other command.
C9_CreateFirst ==
    Truthy(args.create) =>
        /\ Cardinality(AddCalls) <= 1
        /\ AddCalls # {} => AddCalls = {1}
        /\ PastCreate => AddCalls = {1}
        /\ (files # NoFiles \/ BuildCalls # {} \/ ScriptCalls # {}) =>
             (AddCalls = {1} /\ ~CallFailed(1) /\ ~args.no_script)
        /\ (AddCalls # {} /\ CallFailed(1)) =>
             /\ Failed
             /\ FailureOf(1)
             /\ files = NoFiles
             /\ Len(calls) = 1
        /\ (AddCalls # {} /\ ~CallFailed(1) /\ args.no_script) =>
             /\ Succeeded
             /\ files = NoFiles
             /\ Len(calls) = 1
             /\ pc = "exited" => exit_code = 0

\* A --create --no-script run that ended after a successful add.
C9_Witness ==
    /\ Truthy(args.create)
    /\ args.no_script
    /\ pc = "exited"
    /\ exit_code = 0
    /\ AddCalls = {1}

\* The ids before the revert swap.
ForwardIds == IF args.revert THEN [ids EXCEPT !.from_id = ids.to_id, !.to_id = ids.from_id]
              ELSE ids

\* from and to are the ids of the last two catalog entries.
IdsFromCatalog ==
    /\ Len(files) >= 2
    /\ ForwardIds.from_id = EntryId(files[Len(files) - 1])
    /\ ForwardIds.to_id = EntryId(files[Len(files)])
    /\ ForwardIds.latest_ts = files[Len(files)][1]
    /\ ForwardIds.latest_name = files[Len(files)][2]

\* from and to are the overrides; the ticket inputs are the last entry or,
\* with an empty catalog, the word "latest".
IdsFromOverrides ==
    /\ ForwardIds.from_id = args.from_mig
    /\ ForwardIds.to_id = args.to_mig
    /\ files = <<>> => ids.latest_ts = <<"l","a","t","e","s","t">> /\ ids.latest_name = <<"l","a","t","e","s","t">>
    /\ files # <<>> => /\ ids.latest_ts = files[Len(files)][1]
                       /\ ids.latest_name = files[Len(files)][2]

\* The run stopped at the check of the catalog size.
StoppedAtCheck ==
    /\ ~Resolved
    /\ \/ Failed /\ startswith(exc.msg, <<"N","e","e","d"," ","a","t"," ","l","e","a","s","t"," ","t","w","o"," ","m","i","g","r","a","t","i","o","n","s"," ","i","n"," ">>)
       \/ Succeeded /\ stdout[Len(stdout)] = OnlyOneMigration

\* C10 as stated: the overrides are used whenever --from and --to are both
\* supplied, whatever the catalog size; otherwise the check of the catalog
\* size applies and the ids come from the catalog.
C10_BothSupplied ==
    (files # NoFiles /\ pc # "resolve") =>
        IF args.from_mig # None /\ args.to_mig # None
        THEN Resolved /\ IdsFromOverrides
        ELSE IF Len(files) < 2 THEN StoppedAtCheck
        ELSE Resolved /\ IdsFromCatalog

\* C10, amended: the overrides are used when --from and --to are both
\* supplied with a non-empty value, whatever the catalog size; in every
\* other case (one missing or empty) the given one is ignored, the check of
\* the catalog size applies and the ids come from the catalog.
C10_BothNonEmpty ==
    (files # NoFiles /\ pc # "resolve") =>
        IF Truthy(args.from_mig) /\ Truthy(args.to_mig)
        THEN Resolved /\ IdsFromOverrides
        ELSE IF Len(files) < 2 THEN StoppedAtCheck
        ELSE Resolved /\ IdsFromCatalog

\* A run with both overrides and an empty catalog that ran the script
\* command, named after the word "latest".
C10_Witness ==
    /\ files = <<>>
    /\ Truthy(args.from_mig) /\ Truthy(args.to_mig)
    /\ ids.latest_ts = <<"l","a","t","e","s","t">>
    /\ ticket = <<"l","a","t","e","s","t">>
    /\ ScriptCalls # {}

====
